---- MODULE Spec2Model ----
(***************************************************************************)
(* A model of the process-isolated Flower ClientApp driver,                *)
(* src/py/flwr/client/clientapp/app.py: run_clientapp and its helpers      *)
(* get_token, pull_message and push_message.                               *)
(*                                                                         *)
(* One behaviour is one call of run_clientapp.  The SuperNode, the loader  *)
(* and the ClientApp callback are the environment: every remote call and   *)
(* every call into user code may return any value of its type or raise.    *)
(* An interruption (KeyboardInterrupt) is delivered while the driver is in *)
(* one of the steps of the try block (lines 105-147).                      *)
(***************************************************************************)
EXTENDS Integers, Sequences, FiniteSets, TLC

VARIABLES
    pc,             \* position of run_clientapp
    token,          \* local `token` (None or an integer)
    channel,        \* the gRPC channel: "unopened", "open" or "closed"
    message,        \* local `message`
    context,        \* local `context`; the callback mutates it in place
    run,            \* local `run`
    client_app,     \* local `client_app`
    reply_message,  \* local `reply_message`
    ex,             \* the exception being handled or propagating
    logs,           \* what log() has written, in order
    calls,          \* what was done on the channel, in order
    result,         \* how run_clientapp ended: "running", "returned", "raised"
    supplied,       \* history: the `token` argument of run_clientapp
    fetched,        \* history: what pull_message returned
    inner,          \* history: the failure raised inside the inner try
    outer,          \* history: the failure that reached the outer try
    returned,       \* history: what the callback returned
    left            \* history: the context as the callback left it

vars == <<pc, token, channel, message, context, run, client_app, reply_message,
          ex, logs, calls, result, supplied, fetched, inner, outer, returned,
          left>>

-----------------------------------------------------------------------------
(* Bounds and value sets *)

\* How many times the SuperNode may answer GetToken with no token.
MaxPolls == 2

\* Python's None, and a value that is not None: an optional value is a sequence
\* of length 0 or 1.
None == <<>>
Some(x) == <<x>>
Val(o) == o[1]

Tokens == {0, 7, 42}

ProtoMessages == {<<"proto", "M">>}
ProtoContexts == {<<"proto", "C0">>, <<"proto", "C1">>}
ProtoRuns == {<<"proto", [fab_id |-> "fab", fab_version |-> "1.0"]>>}

\* The values a callback may leave in the context it was given.
Contexts == {"C0", "C1", "C2"}

\* The payloads a callback may return.
Replies == {"R1", "R2"}

-----------------------------------------------------------------------------
(* Exceptions *)

Exc(t, a) == [type |-> t, args |-> a]

NoExc == Exc("NoneType", <<>>)

\* The direct base class of each exception class the model raises.
Base(t) ==
    CASE t = "KeyboardInterrupt" -> "BaseException"
      [] t = "SystemExit" -> "BaseException"
      [] t = "Exception" -> "BaseException"
      [] t = "RpcError" -> "Exception"
      [] t = "LoadClientAppError" -> "Exception"
      [] t = "FileNotFoundError" -> "Exception"
      [] t = "ZeroDivisionError" -> "Exception"
      [] t = "ValueError" -> "Exception"
      [] OTHER -> "object"

RECURSIVE IsSubclass(_, _)
IsSubclass(t, cls) ==
    IF t = cls THEN TRUE
    ELSE IF t \in {"BaseException", "object", "NoneType"} THEN FALSE
    ELSE IsSubclass(Base(t), cls)

IsInstance(e, cls) == IsSubclass(e.type, cls)

\* str(type(ex))
QualName(t) ==
    CASE t = "LoadClientAppError" -> "flwr.client.client_app.LoadClientAppError"
      [] t = "RpcError" -> "grpc.RpcError"
      [] OTHER -> t

StrType(e) == "<class '" \o QualName(e.type) \o "'>"

\* str(ex): the empty string without arguments, the argument if there is one
StrExc(e) == IF e.args = <<>> THEN "" ELSE e.args[1]

KeyboardInterrupt == Exc("KeyboardInterrupt", <<>>)

\* What a remote call raises when the transport fails.
TransportErrors == {Exc("RpcError", <<"StatusCode.UNAVAILABLE">>)}

\* What the code outside the inner try may raise besides a transport error:
\* the decoding of the response, the loader factory, the encoding of the reply.
OtherErrors == {Exc("ValueError", <<"bad value">>)}

\* What the loader or the callback may raise.
AppErrors ==
    { Exc(t, a) :
        t \in {"KeyboardInterrupt", "SystemExit", "RpcError", "LoadClientAppError",
               "FileNotFoundError", "ZeroDivisionError"},
        a \in {<<>>, <<"app.toml missing">>, <<"division by zero">>} }

-----------------------------------------------------------------------------
(* Log records, channel events, messages *)

Log(level, text) == [level |-> level, text |-> text]

\* A GetToken request: answered with a token or with none, or failed.
GetTokenCall(answered, res) ==
    [rpc |-> "GetToken", answered |-> answered, response |-> res]
PullCall(t) == [rpc |-> "PullClientAppInputs", token |-> t]
\* Mutant: the request is built without the token (the field's default, 0).
PushCallWithoutToken(t, m, c) ==
    [rpc |-> "PushClientAppOutputs", token |-> 0, message |-> m, context |-> c]

PushCall(t, m, c) == [rpc |-> "PushClientAppOutputs", token |-> t, message |-> m,
                      context |-> c]
CloseCall == [rpc |-> "close"]

CLIENT_APP_RAISED_EXCEPTION == "CLIENT_APP_RAISED_EXCEPTION"
LOAD_CLIENT_APP_EXCEPTION == "LOAD_CLIENT_APP_EXCEPTION"

\* The fixed reason of line 136 (the source writes ClientApp between backquotes,
\* which a TLA+ string cannot hold).
LoadReason == "An exception was raised when attempting to load ClientApp"

Error(code, reason) == [code |-> code, reason |-> reason]

NoError == Error("", "")

\* A message the callback returns.
ReplyOf(m, payload) ==
    [content |-> payload, reply_to |-> m, has_error |-> FALSE, error |-> NoError]

\* message.create_error_reply(error)
create_error_reply(m, error) ==
    [content |-> "", reply_to |-> m, has_error |-> TRUE, error |-> error]

\* The conversions of flwr.common.serde, which app.py only calls: the wire form
\* of a value is the value under a tag, and decoding takes the tag off.
message_from_proto(p) == p[2]
context_from_proto(p) == p[2]
run_from_proto(p) == p[2]
message_to_proto(m) == <<"proto", m>>
context_to_proto(c) == <<"proto", c>>

-----------------------------------------------------------------------------
(* The initial state: run_clientapp is called with a token or without *)

Init ==
    /\ pc = "create_channel"
    /\ token \in {Some(t) : t \in Tokens} \cup {None}
    /\ supplied = token
    /\ channel = "unopened"
    /\ message = None
    /\ context = None
    /\ run = None
    /\ client_app = None
    /\ reply_message = None
    /\ ex = NoExc
    /\ logs = <<>>
    /\ calls = <<>>
    /\ result = "running"
    /\ fetched = None
    /\ inner = [phase |-> "", exc |-> NoExc]
    /\ outer = [phase |-> "", exc |-> NoExc, at |-> 0, logged |-> 0]
    /\ returned = None
    /\ left = None

-----------------------------------------------------------------------------
(* What a run has done so far, read from its history *)

CallsOf(rpc) == {i \in 1..Len(calls) : calls[i].rpc = rpc}

GetTokenCalls == Cardinality(CallsOf("GetToken"))
PullCalls == Cardinality(CallsOf("PullClientAppInputs"))
PushCalls == Cardinality(CallsOf("PushClientAppOutputs"))
CloseCalls == Cardinality(CallsOf("close"))

\* The PushClientAppOutputs request of the run (when there is one).
Pushed == calls[CHOOSE i \in CallsOf("PushClientAppOutputs") : TRUE]

\* The PullClientAppInputs request of the run (when there is one).
Pulled == calls[CHOOSE i \in CallsOf("PullClientAppInputs") : TRUE]

\* The reply and the context the SuperNode received.
PushedMessage == message_from_proto(Pushed.message)
PushedContext == context_from_proto(Pushed.context)

\* An Exception was raised by the loader or by the callback.
ExecutorFailed == inner.phase # "" /\ IsInstance(inner.exc, "Exception")

\* The failure raised by the loader or by the callback left the inner try.
Escaped == outer.phase \in {"load", "invoke"}

\* The run is over.
Done == pc = "done"

-----------------------------------------------------------------------------
(* Steps shared by the actions *)

\* An exception leaves the body of the outer try (lines 105-147).
\* `at` is the number of channel events so far, the failing call included, and
\* `logged` the number of log entries so far.
RaiseOuter(phase, e, at, logged) ==
    /\ pc' = "outer_except"
    /\ ex' = e
    /\ outer' = [phase |-> phase, exc |-> e, at |-> at, logged |-> logged]

\* Mutant: `while not token`, which also takes the token 0 for no token.
LoopCondTruthy(t) == t = None \/ t = Some(0)

\* `while token is None` (line 109)
LoopCond(t) == t = None

\* Mutant: a bare `except:`, which takes interruptions too.
BoundaryCatchesEverything(e) == TRUE

\* Mutant: the handler takes load errors only.
BoundaryCatchesLoadErrorsOnly(e) == IsInstance(e, "LoadClientAppError")

\* `except Exception` (line 128)
BoundaryCatches(e) == IsInstance(e, "Exception")

\* Mutant: the error code follows the phase in which the exception was raised.
ErrorCodeByPhase(e) ==
    IF pc = "handler" /\ inner.phase = "load"
    THEN LOAD_CLIENT_APP_EXCEPTION
    ELSE CLIENT_APP_RAISED_EXCEPTION

\* lines 131-137: the error code of the reply
ErrorCodeOf(e) ==
    IF IsInstance(e, "LoadClientAppError")
    THEN LOAD_CLIENT_APP_EXCEPTION
    ELSE CLIENT_APP_RAISED_EXCEPTION

\* lines 133-136: the reason of the reply
ReasonOf(e) ==
    IF IsInstance(e, "LoadClientAppError")
    THEN LoadReason
    ELSE StrType(e) \o ":<'" \o StrExc(e) \o "'>"

\* An exception is raised inside the inner try (lines 122-127): the handler of
\* line 128 takes it if it matches, otherwise it leaves the outer try's body.
RaiseInner(phase, e) ==
    /\ inner' = [phase |-> phase, exc |-> e]
    /\ ex' = e
    /\ IF BoundaryCatches(e)
       THEN pc' = "handler" /\ UNCHANGED outer
       ELSE pc' = "outer_except"
            /\ outer' = [phase |-> phase, exc |-> e, at |-> Len(calls),
                          logged |-> Len(logs)]

\* How many times GetToken has answered with no token.
NumPolls == Cardinality({i \in 1..Len(calls) : calls[i] = GetTokenCall(TRUE, None)})

-----------------------------------------------------------------------------
(* The actions: one per step of run_clientapp *)

\* lines 99-106: the channel is created and subscribed to, the stub is built
CreateChannel ==
    /\ pc = "create_channel"
    /\ channel' = "open"
    /\ pc' = "token_loop"
    /\ UNCHANGED <<token, message, context, run, client_app, reply_message, ex,
                   logs, calls, result, supplied, fetched, inner, outer, returned, left>>

\* Mutant: the answer of get_token is not assigned to `token`.
GetTokenDropsAnswer ==
    /\ pc = "token_loop"
    /\ LoopCond(token)
    /\ \E t \in {Some(n) : n \in Tokens} \cup {None} :
        /\ t = None => NumPolls < MaxPolls
        /\ GetTokenCalls < MaxPolls + 1
        /\ calls' = Append(calls, GetTokenCall(TRUE, t))
    /\ logs' = Append(logs, Log("DEBUG", "Flower ClientApp process requests token"))
    /\ UNCHANGED <<pc, token, channel, message, context, run, client_app,
                   reply_message, ex, result, supplied, fetched, inner, outer,
                   returned, left>>

\* lines 109-110, 157-161: one iteration of the loop; GetToken answers
GetToken ==
    /\ pc = "token_loop"
    /\ LoopCond(token)
    /\ \E t \in {Some(n) : n \in Tokens} \cup {None} :
        /\ t = None => NumPolls < MaxPolls
        /\ token' = t
        /\ calls' = Append(calls, GetTokenCall(TRUE, t))
    /\ logs' = Append(logs, Log("DEBUG", "Flower ClientApp process requests token"))
    /\ UNCHANGED <<pc, channel, message, context, run, client_app, reply_message,
                   ex, result, supplied, fetched, inner, outer, returned, left>>

\* lines 109-110, 157-161: GetToken raises
GetTokenRaises ==
    /\ pc = "token_loop"
    /\ LoopCond(token)
    /\ \E e \in TransportErrors \cup {KeyboardInterrupt} :
        RaiseOuter("get_token", e, Len(calls) + 1, Len(logs) + 1)
    /\ logs' = Append(logs, Log("DEBUG", "Flower ClientApp process requests token"))
    /\ calls' = Append(calls, GetTokenCall(FALSE, None))
    /\ UNCHANGED <<token, channel, message, context, run, client_app,
                   reply_message, result, supplied, fetched, inner, returned, left>>

\* lines 113, 164-172: PullClientAppInputs answers and the answer is decoded
PullMessage ==
    /\ pc = "token_loop"
    /\ ~LoopCond(token)
    /\ calls' = Append(calls, PullCall(Val(token)))
    /\ \E pm \in ProtoMessages, pcx \in ProtoContexts, pr \in ProtoRuns :
        /\ message' = Some(message_from_proto(pm))
        /\ context' = Some(context_from_proto(pcx))
        /\ run' = Some(run_from_proto(pr))
        /\ fetched' = Some([message |-> message_from_proto(pm),
                            context |-> context_from_proto(pcx),
                            run |-> run_from_proto(pr)])
    /\ pc' = "get_load_client_app_fn"
    /\ UNCHANGED <<token, channel, client_app, reply_message, ex, logs, result,
                   supplied, inner, outer, returned, left>>

\* lines 113, 164-172: PullClientAppInputs raises, or the decoding of its answer
PullMessageRaises ==
    /\ pc = "token_loop"
    /\ ~LoopCond(token)
    /\ calls' = Append(calls, PullCall(Val(token)))
    /\ \E e \in TransportErrors \cup {KeyboardInterrupt} \cup OtherErrors :
        RaiseOuter("pull_message", e, Len(calls) + 1, Len(logs))
    /\ UNCHANGED <<token, channel, message, context, run, client_app,
                   reply_message, logs, result, supplied, fetched, inner, returned, left>>

\* Mutant: the callback is invoked without having been resolved.
GetLoadClientAppFnSkipsLoad ==
    /\ pc = "get_load_client_app_fn"
    /\ pc' = "invoke"
    /\ UNCHANGED <<token, channel, message, context, run, client_app,
                   reply_message, ex, logs, calls, result, supplied, fetched,
                   inner, outer, returned, left>>

\* lines 115-120: the loader is built
GetLoadClientAppFn ==
    /\ pc = "get_load_client_app_fn"
    /\ pc' = "load"
    /\ UNCHANGED <<token, channel, message, context, run, client_app,
                   reply_message, ex, logs, calls, result, supplied, fetched,
                   inner, outer, returned, left>>

\* lines 115-120: building the loader raises
GetLoadClientAppFnRaises ==
    /\ pc = "get_load_client_app_fn"
    /\ \E e \in {KeyboardInterrupt} \cup OtherErrors :
        RaiseOuter("get_load_client_app_fn", e, Len(calls), Len(logs))
    /\ UNCHANGED <<token, channel, message, context, run, client_app,
                   reply_message, logs, calls, result, supplied, fetched, inner,
                   returned, left>>

\* line 124: the loader returns the ClientApp
LoadClientApp ==
    /\ pc = "load"
    /\ client_app' = Some([fab_id |-> Val(run).fab_id,
                          fab_version |-> Val(run).fab_version])
    /\ pc' = "invoke"
    /\ UNCHANGED <<token, channel, message, context, run, reply_message, ex,
                   logs, calls, result, supplied, fetched, inner, outer, returned, left>>

\* line 124: the loader raises
LoadClientAppRaises ==
    /\ pc = "load"
    /\ \E e \in AppErrors : RaiseInner("load", e)
    /\ UNCHANGED <<token, channel, message, context, run, client_app,
                   reply_message, logs, calls, result, supplied, fetched, returned, left>>

\* line 127: the callback returns a message; it may have changed the context
InvokeClientApp ==
    /\ pc = "invoke"
    /\ \E r \in Replies, c \in Contexts :
        /\ reply_message' = Some(ReplyOf(Val(message), r))
        /\ returned' = Some(ReplyOf(Val(message), r))
        /\ context' = Some(c)
        /\ left' = Some(c)
    /\ pc' = "push_message"
    /\ UNCHANGED <<token, channel, message, run, client_app, ex, logs, calls,
                   result, supplied, fetched, inner, outer>>

\* line 127: the callback raises; it may have changed the context before
InvokeClientAppRaises ==
    /\ pc = "invoke"
    /\ \E e \in AppErrors, c \in Contexts :
        /\ RaiseInner("invoke", e)
        /\ context' = Some(c)
        /\ left' = Some(c)
    /\ UNCHANGED <<token, channel, message, run, client_app, reply_message, logs,
                   calls, result, supplied, fetched, returned>>

\* Mutant: the handler replaces the context by an empty one.
HandleExceptionEmptyContext ==
    /\ pc = "handler"
    /\ logs' = Append(logs, Log("ERROR", "ClientApp raised an exception"))
    /\ reply_message' =
         Some(create_error_reply(Val(message),
                                 Error(ErrorCodeOf(ex), ReasonOf(ex))))
    /\ context' = Some("")
    /\ ex' = NoExc
    /\ pc' = "push_message"
    /\ UNCHANGED <<token, channel, message, run, client_app, calls, result,
                   supplied, fetched, inner, outer, returned, left>>

\* lines 128-144: the handler of the inner try builds the error reply
HandleException ==
    /\ pc = "handler"
    /\ logs' = Append(logs, Log("ERROR", "ClientApp raised an exception"))
    /\ reply_message' =
         Some(create_error_reply(Val(message),
                                 Error(ErrorCodeOf(ex), ReasonOf(ex))))
    /\ ex' = NoExc
    /\ pc' = "push_message"
    /\ UNCHANGED <<token, channel, message, context, run, client_app, calls,
                   result, supplied, fetched, inner, outer, returned, left>>

\* lines 128-144: the handler itself raises while it builds the error reply
HandleExceptionRaises ==
    /\ pc = "handler"
    /\ logs' = Append(logs, Log("ERROR", "ClientApp raised an exception"))
    /\ \E e \in {KeyboardInterrupt} \cup OtherErrors :
        RaiseOuter("handler", e, Len(calls), Len(logs) + 1)
    /\ UNCHANGED <<token, channel, message, context, run, client_app,
                   reply_message, calls, result, supplied, fetched, inner, returned, left>>

\* Mutant: the context pushed is the one fetched, not the one the callback
\* worked on.
PushMessageFetchedContext ==
    /\ pc = "push_message"
    /\ calls' = Append(calls, PushCall(Val(token),
                                       message_to_proto(Val(reply_message)),
                                       context_to_proto(Val(fetched).context)))
    /\ pc' = "finally"
    /\ UNCHANGED <<token, channel, message, context, run, client_app,
                   reply_message, ex, logs, result, supplied, fetched, inner,
                   outer, returned, left>>

\* lines 147, 175-186: the reply is encoded and PushClientAppOutputs answers
PushMessage ==
    /\ pc = "push_message"
    /\ calls' = Append(calls, PushCall(Val(token),
                                       message_to_proto(Val(reply_message)),
                                       context_to_proto(Val(context))))
    /\ pc' = "finally"
    /\ UNCHANGED <<token, channel, message, context, run, client_app,
                   reply_message, ex, logs, result, supplied, fetched, inner,
                   outer, returned, left>>

\* lines 147, 175-186: PushClientAppOutputs raises
PushMessageRaises ==
    /\ pc = "push_message"
    /\ calls' = Append(calls, PushCall(Val(token),
                                       message_to_proto(Val(reply_message)),
                                       context_to_proto(Val(context))))
    /\ \E e \in TransportErrors \cup {KeyboardInterrupt} :
        RaiseOuter("push_message", e, Len(calls) + 1, Len(logs))
    /\ UNCHANGED <<token, channel, message, context, run, client_app,
                   reply_message, logs, result, supplied, fetched, inner, returned, left>>

\* lines 179-180: the encoding of the reply raises or is interrupted, before any
\* request is sent
PushMessageEncodeRaises ==
    /\ pc = "push_message"
    /\ \E e \in {KeyboardInterrupt} \cup OtherErrors :
        RaiseOuter("encode", e, Len(calls), Len(logs))
    /\ UNCHANGED <<token, channel, message, context, run, client_app,
                   reply_message, logs, calls, result, supplied, fetched, inner,
                   returned, left>>

\* Mutant: the interruption is logged at ERROR, like a transport error.
ExceptKeyboardInterruptLogsError ==
    /\ pc = "outer_except"
    /\ IsInstance(ex, "KeyboardInterrupt")
    /\ logs' = Append(logs, Log("ERROR", "Closing connection"))
    /\ ex' = NoExc
    /\ pc' = "finally"
    /\ UNCHANGED <<token, channel, message, context, run, client_app,
                   reply_message, calls, result, supplied, fetched, inner, outer,
                   returned, left>>

\* lines 149-150
ExceptKeyboardInterrupt ==
    /\ pc = "outer_except"
    /\ IsInstance(ex, "KeyboardInterrupt")
    /\ logs' = Append(logs, Log("INFO", "Closing connection"))
    /\ ex' = NoExc
    /\ pc' = "finally"
    /\ UNCHANGED <<token, channel, message, context, run, client_app,
                   reply_message, calls, result, supplied, fetched, inner, outer,
                   returned, left>>

\* Mutant: the handler logs the transport error and raises it again.
ExceptRpcErrorReraises ==
    /\ pc = "outer_except"
    /\ ~IsInstance(ex, "KeyboardInterrupt")
    /\ IsInstance(ex, "RpcError")
    /\ logs' = Append(logs, Log("ERROR", "GRPC error occurred: " \o StrExc(ex)))
    /\ pc' = "finally"
    /\ UNCHANGED <<token, channel, message, context, run, client_app,
                   reply_message, ex, calls, result, supplied, fetched, inner,
                   outer, returned, left>>

\* Mutant: the handler logs the transport error and the driver starts over.
ExceptRpcErrorRetries ==
    /\ pc = "outer_except"
    /\ ~IsInstance(ex, "KeyboardInterrupt")
    /\ IsInstance(ex, "RpcError")
    /\ PullCalls + PushCalls < 3
    /\ logs' = Append(logs, Log("ERROR", "GRPC error occurred: " \o StrExc(ex)))
    /\ ex' = NoExc
    /\ pc' = "token_loop"
    /\ UNCHANGED <<token, channel, message, context, run, client_app,
                   reply_message, calls, result, supplied, fetched, inner, outer,
                   returned, left>>

\* lines 151-152
ExceptRpcError ==
    /\ pc = "outer_except"
    /\ ~IsInstance(ex, "KeyboardInterrupt")
    /\ IsInstance(ex, "RpcError")
    /\ logs' = Append(logs, Log("ERROR", "GRPC error occurred: " \o StrExc(ex)))
    /\ ex' = NoExc
    /\ pc' = "finally"
    /\ UNCHANGED <<token, channel, message, context, run, client_app,
                   reply_message, calls, result, supplied, fetched, inner, outer,
                   returned, left>>

\* Mutant: a catch-all clause ends the propagation.
ExceptNoMatchSwallows ==
    /\ pc = "outer_except"
    /\ ~IsInstance(ex, "KeyboardInterrupt")
    /\ ~IsInstance(ex, "RpcError")
    /\ ex' = NoExc
    /\ pc' = "finally"
    /\ UNCHANGED <<token, channel, message, context, run, client_app,
                   reply_message, logs, calls, result, supplied, fetched, inner,
                   outer, returned, left>>

\* lines 149-153: no except clause matches, the exception keeps propagating
ExceptNoMatch ==
    /\ pc = "outer_except"
    /\ ~IsInstance(ex, "KeyboardInterrupt")
    /\ ~IsInstance(ex, "RpcError")
    /\ pc' = "finally"
    /\ UNCHANGED <<token, channel, message, context, run, client_app,
                   reply_message, ex, logs, calls, result, supplied, fetched,
                   inner, outer, returned, left>>

\* Mutant: the close follows the try statement instead of being its finally
\* clause, so a propagating exception skips it.
FinallyAfterTry ==
    /\ pc = "finally"
    /\ channel' = IF ex = NoExc THEN "closed" ELSE channel
    /\ calls' = IF ex = NoExc THEN Append(calls, CloseCall) ELSE calls
    /\ result' = IF ex = NoExc THEN "returned" ELSE "raised"
    /\ pc' = "done"
    /\ UNCHANGED <<token, message, context, run, client_app, reply_message, ex,
                   logs, supplied, fetched, inner, outer, returned, left>>

\* lines 153-154: the channel is closed; run_clientapp returns, or the
\* exception no clause took goes to the caller
Finally ==
    /\ pc = "finally"
    /\ channel' = "closed"
    /\ calls' = Append(calls, CloseCall)
    /\ result' = IF ex = NoExc THEN "returned" ELSE "raised"
    /\ pc' = "done"
    /\ UNCHANGED <<token, message, context, run, client_app, reply_message, ex,
                   logs, supplied, fetched, inner, outer, returned, left>>

Next ==
    \/ CreateChannel
    \/ GetToken
    \/ GetTokenRaises
    \/ PullMessage
    \/ PullMessageRaises
    \/ GetLoadClientAppFn
    \/ GetLoadClientAppFnRaises
    \/ LoadClientApp
    \/ LoadClientAppRaises
    \/ InvokeClientApp
    \/ InvokeClientAppRaises
    \/ HandleException
    \/ HandleExceptionRaises
    \/ PushMessage
    \/ PushMessageRaises
    \/ PushMessageEncodeRaises
    \/ ExceptKeyboardInterrupt
    \/ ExceptRpcError
    \/ ExceptNoMatch
    \/ Finally

Spec == Init /\ [][Next]_vars

\* The driver is one sequential thread that keeps running, and every call it
\* makes returns or raises: a step that can be taken is eventually taken.
LiveSpec == Init /\ [][Next]_vars /\ WF_vars(Next)

-----------------------------------------------------------------------------
(* C1 *)

\* C1 as stated: whatever is raised while the callback is resolved or invoked,
\* it does not escape the inner try, and the run goes on to issue
\* PushClientAppOutputs.
C1_Original ==
    /\ inner.phase # "" => ~Escaped
    /\ (Done /\ inner.phase # "") => PushCalls = 1

\* C1, amended: every failure that is an instance of Exception, raised while the
\* callback is resolved or invoked, is caught by the inner try and does not
\* reach the driver; unless building the error reply or encoding the reply then
\* raises or is interrupted, the run goes on to issue exactly one PushClientAppOutputs, whose
\* message carries an error exactly when the loader or the callback raised.
C1_ReplyAlwaysProduced ==
    /\ ExecutorFailed => ~Escaped
    /\ (Done /\ (ExecutorFailed \/ returned # None)
             /\ outer.phase \notin {"handler", "encode"})
       => /\ PushCalls = 1
          /\ PushedMessage.has_error = ExecutorFailed

C1_Witness ==
    /\ Done
    /\ inner.phase = "invoke"
    /\ inner.exc = Exc("ZeroDivisionError", <<"division by zero">>)
    /\ PushCalls = 1
    /\ PushedMessage.has_error
    /\ result = "returned"

-----------------------------------------------------------------------------
(* C2 *)

\* C2 as stated: every run issues exactly one PullClientAppInputs and exactly
\* one PushClientAppOutputs, with the same token.
C2_Original ==
    Done => /\ PullCalls = 1
            /\ PushCalls = 1
            /\ Pulled.token = Pushed.token

\* C2, amended: every run in which no exception leaves the body of the outer
\* try (no transport error, no interruption, nothing else reaches the driver)
\* issues exactly one PullClientAppInputs and exactly one PushClientAppOutputs,
\* both with the same token.
C2_OnePullOnePush ==
    (Done /\ outer.phase = "") =>
        /\ PullCalls = 1
        /\ PushCalls = 1
        /\ Pulled.token = Pushed.token

C2_Witness ==
    /\ Done
    /\ outer.phase = ""
    /\ supplied = Some(7)
    /\ Pulled = PullCall(7)
    /\ Pushed.token = 7

-----------------------------------------------------------------------------
(* C3 *)

\* C3: once the channel is open, every way out of run_clientapp closes it:
\* the run cannot stop before the close, the close happens exactly once, and
\* it is the last thing done on the channel.
C3_CloseOnEveryExit ==
    /\ CloseCalls <= 1
    /\ CloseCalls = 1 <=> channel = "closed"
    /\ CloseCalls = 1 => calls[Len(calls)] = CloseCall
    /\ result # "running" => channel = "closed"
    /\ Done => result # "running"
    /\ ~Done => ENABLED Next

C3_Witness ==
    /\ Done
    /\ outer.phase = "push_message"
    /\ IsInstance(outer.exc, "RpcError")
    /\ channel = "closed"
    /\ calls[Len(calls)] = CloseCall
    /\ calls[Len(calls) - 1].rpc = "PushClientAppOutputs"

-----------------------------------------------------------------------------
(* C4 *)

\* C4 as stated: whenever the loader raised, whatever the type of what it
\* raised, the reply the SuperNode receives carries LOAD_CLIENT_APP_EXCEPTION
\* and the fixed reason, and the context it receives is the fetched one.
C4_Claim ==
    (PushCalls = 1 /\ inner.phase = "load") =>
        /\ PushedMessage.has_error
        /\ PushedMessage.error = Error(LOAD_CLIENT_APP_EXCEPTION, LoadReason)
        /\ PushedContext = Val(fetched).context

-----------------------------------------------------------------------------
(* C5 *)

\* C5 as stated: whenever the callback raised an exception of type T with
\* message m, whatever T is, the reply the SuperNode receives carries
\* CLIENT_APP_RAISED_EXCEPTION and the reason str(T) + ":<'" + m + "'>".
C5_Claim ==
    (PushCalls = 1 /\ inner.phase = "invoke") =>
        /\ PushedMessage.has_error
        /\ PushedMessage.error =
             Error(CLIENT_APP_RAISED_EXCEPTION,
                   StrType(inner.exc) \o ":<'" \o StrExc(inner.exc) \o "'>")

-----------------------------------------------------------------------------
(* C6 *)

\* C6: when run_clientapp is given a token (0 included), GetToken is never
\* called, the token is never replaced, and PullClientAppInputs and
\* PushClientAppOutputs carry exactly that token.
C6_PreSuppliedToken ==
    supplied # None =>
        /\ GetTokenCalls = 0
        /\ token = supplied
        /\ \A i \in CallsOf("PullClientAppInputs") \cup CallsOf("PushClientAppOutputs") :
             calls[i].token = Val(supplied)

C6_Witness ==
    /\ Done
    /\ supplied = Some(0)
    /\ PullCalls = 1
    /\ PushCalls = 1
    /\ Pulled.token = 0
    /\ Pushed.token = 0

-----------------------------------------------------------------------------
(* C7 *)

\* C7: when run_clientapp is given no token, the GetToken calls come first, one
\* per iteration; every call but the last was answered with no token, so after
\* k such answers and one answer with token t there are exactly k + 1 calls;
\* while there is no token the loop can only call GetToken again; once there is
\* one, GetToken is not called again and the next request is
\* PullClientAppInputs(t).
C7_TokenPolling ==
    supplied = None =>
        /\ CallsOf("GetToken") = 1..GetTokenCalls
        /\ \A i \in 1..(GetTokenCalls - 1) : calls[i] = GetTokenCall(TRUE, None)
        /\ token # None =>
             /\ calls[GetTokenCalls] = GetTokenCall(TRUE, token)
             /\ GetTokenCalls = NumPolls + 1
             /\ Len(calls) > GetTokenCalls =>
                  calls[GetTokenCalls + 1] = PullCall(Val(token))
        /\ (token = None /\ pc = "token_loop") =>
             /\ GetTokenCalls = NumPolls
             /\ ENABLED GetToken
             /\ ~ENABLED PullMessage
        /\ PullCalls > 0 => token # None

C7_Witness ==
    /\ supplied = None
    /\ Len(calls) >= 4
    /\ calls[1] = GetTokenCall(TRUE, None)
    /\ calls[2] = GetTokenCall(TRUE, None)
    /\ calls[3] = GetTokenCall(TRUE, Some(42))
    /\ calls[4] = PullCall(42)

-----------------------------------------------------------------------------
(* C8 *)

\* The driver's own remote call failed with a transport error.
TransportFailed ==
    /\ outer.phase \in {"get_token", "pull_message", "push_message"}
    /\ IsInstance(outer.exc, "RpcError")

\* C8: a transport error raised by GetToken, PullClientAppInputs or
\* PushClientAppOutputs is logged at ERROR with its text, the channel is
\* closed, and run_clientapp returns: the error is not raised to the caller.
C8_TransportErrorHandled ==
    TransportFailed =>
        /\ pc \in {"outer_except", "finally", "done"}
        /\ pc \in {"finally", "done"} =>
             /\ ex = NoExc
             /\ logs[Len(logs)] =
                  Log("ERROR", "GRPC error occurred: " \o StrExc(outer.exc))
        /\ Done => (channel = "closed" /\ result = "returned")

C8_Witness ==
    /\ Done
    /\ outer.phase = "get_token"
    /\ IsInstance(outer.exc, "RpcError")
    /\ logs[Len(logs)] = Log("ERROR", "GRPC error occurred: StatusCode.UNAVAILABLE")
    /\ channel = "closed"
    /\ result = "returned"

-----------------------------------------------------------------------------
(* C9 *)

\* C9: after a transport error of GetToken, PullClientAppInputs or
\* PushClientAppOutputs nothing more is requested on the channel (it is only
\* closed): the failed call is not repeated and no error reply is pushed; when
\* GetToken or PullClientAppInputs failed, the callback is neither loaded nor
\* invoked and no reply is built.
C9_NoRetryNoReply ==
    TransportFailed =>
        /\ \A i \in 1..Len(calls) : i > outer.at => calls[i] = CloseCall
        /\ outer.phase = "get_token" =>
             /\ calls[outer.at] = GetTokenCall(FALSE, None)
             /\ PullCalls = 0
        /\ outer.phase = "pull_message" =>
             /\ calls[outer.at].rpc = "PullClientAppInputs"
             /\ PullCalls = 1
        /\ outer.phase \in {"get_token", "pull_message"} =>
             /\ client_app = None
             /\ inner.phase = ""
             /\ returned = None
             /\ reply_message = None
             /\ PushCalls = 0
        /\ outer.phase = "push_message" =>
             /\ calls[outer.at].rpc = "PushClientAppOutputs"
             /\ PushCalls = 1

C9_Witness ==
    /\ Done
    /\ outer.phase = "pull_message"
    /\ IsInstance(outer.exc, "RpcError")
    /\ PullCalls = 1
    /\ Len(calls) = outer.at + 1
    /\ client_app = None

-----------------------------------------------------------------------------
(* C10 *)

\* C10: an interruption during the token loop, PullClientAppInputs, the
\* building of the loader, the resolution or the invocation of the callback,
\* the building of the error reply or PushClientAppOutputs is not taken by the
\* inner handler; after it nothing is requested on the channel but its close
\* (no PushClientAppOutputs), "Closing connection" is logged at INFO, the
\* channel is closed and run_clientapp returns without raising.
C10_InterruptTearsDown ==
    /\ (inner.phase # "" /\ IsInstance(inner.exc, "KeyboardInterrupt")) =>
         (Escaped /\ PushCalls = 0)
    /\ IsInstance(outer.exc, "KeyboardInterrupt") =>
         /\ \A i \in 1..Len(calls) : i > outer.at => calls[i] = CloseCall
         /\ pc \in {"outer_except", "finally", "done"}
         /\ pc \in {"finally", "done"} =>
              /\ ex = NoExc
              /\ logs[Len(logs)] = Log("INFO", "Closing connection")
         /\ Done => (channel = "closed" /\ result = "returned")

C10_Witness ==
    /\ Done
    /\ outer.phase = "invoke"
    /\ IsInstance(outer.exc, "KeyboardInterrupt")
    /\ PushCalls = 0
    /\ channel = "closed"
    /\ result = "returned"

-----------------------------------------------------------------------------
(* C11 *)

\* C11: when the callback returned, the message the SuperNode receives is
\* exactly the message the callback returned (it carries no error), and the
\* context it receives is the context as the callback left it.
C11_SuccessReply ==
    (returned # None /\ PushCalls = 1) =>
        /\ PushedMessage = Val(returned)
        /\ ~PushedMessage.has_error
        /\ PushedContext = Val(left)

C11_Witness ==
    /\ Done
    /\ returned = Some(ReplyOf("M", "R2"))
    /\ Val(fetched).context = "C0"
    /\ left = Some("C2")
    /\ PushCalls = 1
    /\ PushedMessage = ReplyOf("M", "R2")
    /\ PushedContext = "C2"

-----------------------------------------------------------------------------
(* C12 *)

\* C12: when the loader or the callback raised an Exception, the context the
\* SuperNode receives is the fetched context in the state it had when the
\* failure happened: as fetched when the loader raised, as the callback left
\* it when the callback raised; it is never an empty substitute.
C12_ContextKeptOnFailure ==
    (ExecutorFailed /\ PushCalls = 1) =>
        /\ inner.phase = "load" =>
             (left = None /\ PushedContext = Val(fetched).context)
        /\ inner.phase = "invoke" => PushedContext = Val(left)
        /\ PushedContext \in Contexts

C12_Witness ==
    /\ Done
    /\ inner.phase = "invoke"
    /\ IsInstance(inner.exc, "ZeroDivisionError")
    /\ Val(fetched).context = "C0"
    /\ left = Some("C2")
    /\ PushCalls = 1
    /\ PushedMessage.has_error
    /\ PushedContext = "C2"

-----------------------------------------------------------------------------
(* C13 *)

\* A failure that is no transport error and no interruption, raised outside
\* the inner try's body: in the decoding of the PullClientAppInputs response,
\* in get_load_client_app_fn, in the building of the error reply or in the
\* encoding of the reply.
FailedOutsideBoundary ==
    /\ outer.phase \in {"pull_message", "get_load_client_app_fn", "handler", "encode"}
    /\ outer.exc \in OtherErrors

\* C13 as stated: such a failure ends the run, the driver writes a log entry
\* for it, no reply is pushed and the channel is closed.
C13_Claim ==
    (Done /\ FailedOutsideBoundary) =>
        /\ Len(logs) > outer.logged
        /\ PushCalls = 0
        /\ channel = "closed"

-----------------------------------------------------------------------------
(* C14 *)

\* C14: the phases of a run follow one another: every GetToken call precedes
\* PullClientAppInputs, which precedes PushClientAppOutputs, which precedes the
\* close; the callback is resolved only after the inputs are fetched, invoked
\* only after it is resolved, the handler runs only after a failure of one of
\* the two, the reply is pushed only once the executor has produced it, and
\* the channel is closed only when everything else is over.
C14_PhasesSequential ==
    /\ \A i \in CallsOf("GetToken"), j \in CallsOf("PullClientAppInputs") : i < j
    /\ \A i \in CallsOf("PullClientAppInputs"), j \in CallsOf("PushClientAppOutputs") :
         i < j
    /\ \A i \in 1..Len(calls), j \in CallsOf("close") : i <= j
    /\ pc \in {"create_channel", "token_loop"} =>
         /\ PullCalls = 0
         /\ fetched = None
    /\ fetched = None =>
         /\ client_app = None
         /\ inner.phase = ""
         /\ returned = None
    /\ pc \in {"get_load_client_app_fn", "load"} =>
         /\ PullCalls = 1
         /\ fetched # None
         /\ client_app = None
         /\ inner.phase = ""
    /\ client_app = None => (returned = None /\ inner.phase # "invoke")
    /\ pc = "invoke" =>
         /\ client_app # None
         /\ returned = None
         /\ inner.phase = ""
    /\ pc = "handler" => (ExecutorFailed /\ returned = None)
    /\ pc \in {"create_channel", "token_loop", "get_load_client_app_fn", "load",
               "invoke", "handler"} =>
         /\ reply_message = None
         /\ PushCalls = 0
    /\ pc = "push_message" =>
         /\ PushCalls = 0
         /\ reply_message # None
         /\ returned # None \/ ExecutorFailed
    /\ PushCalls = 1 =>
         /\ pc \in {"outer_except", "finally", "done"}
         /\ reply_message # None
    /\ channel = "closed" => Done

C14_Witness ==
    /\ Done
    /\ result = "returned"
    /\ supplied = None
    /\ GetTokenCalls = 2
    /\ Len(calls) = 5
    /\ calls[3].rpc = "PullClientAppInputs"
    /\ calls[4].rpc = "PushClientAppOutputs"
    /\ calls[5] = CloseCall
    /\ client_app # None
    /\ returned # None

-----------------------------------------------------------------------------
(* C15 *)

\* The driver is in the token loop and has no token.
TokenPending == pc = "token_loop" /\ token = None

\* C15: however many times GetToken has answered with no token, the driver is
\* still in the token loop, has requested no inputs, has not ended, and can
\* only call GetToken again: an answer without a token leaves it there.  When
\* the SuperNode stops answering so (or a token was supplied) and every call
\* returns or raises, the run ends with the channel closed.
C15_PollingAndTermination ==
    /\ [](TokenPending =>
            /\ GetTokenCalls = NumPolls
            /\ PullCalls = 0
            /\ result = "running"
            /\ ENABLED GetToken
            /\ ~ENABLED PullMessage)
    /\ [][(TokenPending /\ token' = None /\ ex' = NoExc) =>
            (pc' = "token_loop" /\ GetTokenCalls' = GetTokenCalls + 1)]_vars
    /\ <>(Done /\ channel = "closed" /\ result # "running")

C15_Witness ==
    /\ TokenPending
    /\ NumPolls = MaxPolls
    /\ GetTokenCalls = MaxPolls
    /\ ENABLED GetToken

-----------------------------------------------------------------------------
(* C16 *)

\* The log entries written since the failure that left the outer try's body.
LoggedSinceFailure == SubSeq(logs, outer.logged + 1, Len(logs))

\* C16: for a transport error of the driver's own remote call the driver
\* writes one entry, at ERROR, holding the text of the error; for an
\* interruption it writes one entry, at INFO, and none at ERROR.
C16_LogLevelFollowsCause ==
    /\ pc = "outer_except" => LoggedSinceFailure = <<>>
    /\ (TransportFailed /\ pc \in {"finally", "done"}) =>
         LoggedSinceFailure =
           <<Log("ERROR", "GRPC error occurred: " \o StrExc(outer.exc))>>
    /\ (IsInstance(outer.exc, "KeyboardInterrupt") /\ pc \in {"finally", "done"}) =>
         /\ LoggedSinceFailure = <<Log("INFO", "Closing connection")>>
         /\ \A i \in 1..Len(LoggedSinceFailure) :
              LoggedSinceFailure[i].level # "ERROR"

C16_Witness ==
    /\ Done
    /\ outer.phase = "push_message"
    /\ IsInstance(outer.exc, "KeyboardInterrupt")
    /\ logs[Len(logs)] = Log("INFO", "Closing connection")
    /\ \A i \in 1..Len(logs) : logs[i].level # "ERROR"

-----------------------------------------------------------------------------
(* C17 *)

\* C17: in every state of every run, aborted runs included, at most one
\* PullClientAppInputs and at most one PushClientAppOutputs have been issued;
\* a PushClientAppOutputs comes only after pull_message returned, and carries
\* the token of the PullClientAppInputs; and once `token` holds an integer no
\* step changes it.
C17_AtMostOnceAndTokenStable ==
    /\ [](/\ PullCalls <= 1
          /\ PushCalls <= 1
          /\ PushCalls = 1 =>
               /\ fetched # None
               /\ PullCalls = 1
               /\ Pushed.token = Pulled.token
               /\ Pushed.token = Val(token))
    /\ [][token # None => token' = token]_vars

C17_Witness ==
    /\ Done
    /\ result = "raised"
    /\ supplied = None
    /\ token = Some(42)
    /\ PullCalls = 1
    /\ PushCalls = 0

-----------------------------------------------------------------------------
(* C18 *)

\* C18: the error of an error reply is decided by the type of the exception
\* the inner handler took, wherever it was raised: LOAD_CLIENT_APP_EXCEPTION
\* with the fixed reason exactly when it is a LoadClientAppError, raised by the
\* loader or by the callback; CLIENT_APP_RAISED_EXCEPTION with the type and the
\* text of the exception for every other Exception, raised by the loader or by
\* the callback.
C18_CodeFollowsType ==
    (ExecutorFailed /\ PushCalls = 1) =>
        /\ PushedMessage.has_error
        /\ PushedMessage.error.code = LOAD_CLIENT_APP_EXCEPTION
             <=> inner.exc.type = "LoadClientAppError"
        /\ inner.exc.type = "LoadClientAppError" =>
             PushedMessage.error = Error(LOAD_CLIENT_APP_EXCEPTION, LoadReason)
        /\ inner.exc.type # "LoadClientAppError" =>
             PushedMessage.error =
               Error(CLIENT_APP_RAISED_EXCEPTION,
                     "<class '" \o QualName(inner.exc.type) \o "'>:<'"
                        \o StrExc(inner.exc) \o "'>")

C18_Witness ==
    /\ Done
    /\ inner.phase = "load"
    /\ inner.exc = Exc("ZeroDivisionError", <<"division by zero">>)
    /\ PushCalls = 1
    /\ PushedMessage.error =
         Error(CLIENT_APP_RAISED_EXCEPTION,
               "<class 'ZeroDivisionError'>:<'division by zero'>")

-----------------------------------------------------------------------------
(* C19 *)

\* The loader or the callback raised something that is neither an Exception
\* nor an interruption (SystemExit).
RaisedBaseException ==
    /\ inner.phase # ""
    /\ ~IsInstance(inner.exc, "Exception")
    /\ ~IsInstance(inner.exc, "KeyboardInterrupt")

\* C19: what the loader or the callback raises that is neither an Exception
\* nor a KeyboardInterrupt is not taken by the inner handler: no error reply is
\* built, PushClientAppOutputs is never called, the channel is still closed,
\* and the exception goes to the caller of run_clientapp.
C19_BaseExceptionPropagates ==
    RaisedBaseException =>
        /\ Escaped
        /\ outer.exc = inner.exc
        /\ pc \in {"outer_except", "finally", "done"}
        /\ ex = inner.exc
        /\ reply_message = None
        /\ PushCalls = 0
        /\ Done => (channel = "closed" /\ result = "raised")

C19_Witness ==
    /\ Done
    /\ inner.phase = "invoke"
    /\ inner.exc.type = "SystemExit"
    /\ PushCalls = 0
    /\ channel = "closed"
    /\ result = "raised"

====
